---- MODULE Spec2Model ----
(***************************************************************************)
(* A model of the MITRE ATT&CK tooling of this repository:                 *)
(*   mitrejson.py         load_json_files, build_knowledge_graph,          *)
(*                        generate_embeddings_and_index                    *)
(*   mitre_processor2.py  process_mitre, main                              *)
(* Python dicts are functions whose domain is the set of keys present, so  *)
(* d.get(k, default) is Get(d, k, default).  Each stage has a              *)
(* specification of its own (SpecLoad, SpecGraph, SpecIndex, SpecFilter);  *)
(* the variables of the other stages stay at their idle values.            *)
(***************************************************************************)
EXTENDS Integers, Sequences, FiniteSets, TLC

VARIABLES
    \* build_knowledge_graph
    data,        \* the argument: a sequence of parsed documents
    entry_i,     \* position of the outer loop (for entry in data)
    obj_i,       \* position of the inner loop (for obj in entry["objects"])
    G,           \* the DiGraph under construction
    build_pc,    \* "idle" | "loop" | "returned"
    \* load_json_files
    path,        \* the argument
    listing,     \* the entries of the directory Dir, in os.listdir order
    json_files,  \* the candidates
    file_i,      \* position of the loop (for file in json_files)
    load_data,   \* the local list data, returned at the end
    printed,     \* what was printed
    load_pc,     \* "idle" | "resolve" | "loop" | "returned" | "raised"
    \* generate_embeddings_and_index
    index,       \* the module-level FAISS index: its vectors, in insertion order
    node_list,   \* the snapshot list(G.nodes(data=True)) of the last call
    texts,       \* the batch passed to model.encode by the last call
    calls,       \* the calls made so far in this process
    \* process_mitre and main
    json_file,       \* what is found at json_file_path
    platform,        \* the platform argument
    processed_data,  \* what process_mitre returned
    filter_exc,      \* the exception process_mitre raised ("": none)
    outfile,         \* what main wrote to the output file
    filter_pc        \* "idle" | "start" | "processed" | "caught" | "done"

buildVars == <<data, entry_i, obj_i, build_pc>>
loadVars == <<path, listing, json_files, file_i, load_data, printed, load_pc>>
indexVars == <<index, node_list, texts, calls>>
filterVars == <<json_file, platform, processed_data, filter_exc, outfile, filter_pc>>
vars == <<G, buildVars, loadVars, indexVars, filterVars>>

(***************************************************************************)
(* Bounds of the model.                                                    *)
(***************************************************************************)
MaxDocs == 2        \* documents in the argument of build_knowledge_graph
MaxObjects == 3     \* objects in those documents, all together
MaxEntries == 3     \* entries of the directory load_json_files reads
MaxCalls == 2       \* calls of generate_embeddings_and_index in one process
MaxIndexObjects == 2   \* objects of the documents the indexed graphs are built from
MaxFilterObjects == 2  \* objects of the document process_mitre reads

(***************************************************************************)
(* Python helpers.                                                         *)
(***************************************************************************)
\* the value of d.get(k) for an absent key
None == "<None>"

\* d.get(k, default)
Get(d, k, default) == IF k \in DOMAIN d THEN d[k] ELSE default

\* bool(v) of a str or None: false for None and for the empty string
Truthy(v) == v # None /\ v # ""

\* old.update(new) of two dicts
Update(old, new) ==
    [k \in DOMAIN old \cup DOMAIN new |-> IF k \in DOMAIN new THEN new[k] ELSE old[k]]

Range(s) == {s[i] : i \in 1..Len(s)}

(***************************************************************************)
(* networkx.DiGraph: nodes in insertion order, one attribute dict per      *)
(* node, one attribute dict per edge (u, v).                               *)
(***************************************************************************)
DiGraph == [nodes |-> <<>>, attr |-> <<>>, edges |-> <<>>]

HasNode(g, n) == n \in Range(g.nodes)

\* G.add_node(n, **attrs): a new node is appended, a known one has its
\* attribute dict updated
add_node(g, n, attrs) ==
    IF HasNode(g, n)
    THEN [g EXCEPT !.attr = [m \in DOMAIN g.attr |->
                                IF m = n THEN Update(g.attr[m], attrs) ELSE g.attr[m]]]
    ELSE [g EXCEPT !.nodes = Append(@, n),
                   !.attr  = [m \in DOMAIN g.attr \cup {n} |->
                                IF m = n THEN attrs ELSE g.attr[m]]]

\* G.add_edge(u, v, **attrs): networkx adds u and v as nodes without
\* attributes when they are not nodes yet, then updates the edge's dict
add_edge(g, u, v, attrs) ==
    LET g1 == add_node(g, u, <<>>)
        g2 == add_node(g1, v, <<>>)
        old == IF <<u, v>> \in DOMAIN g2.edges THEN g2.edges[<<u, v>>] ELSE <<>>
    IN [g2 EXCEPT !.edges = [e \in DOMAIN g2.edges \cup {<<u, v>>} |->
                                IF e = <<u, v>> THEN Update(old, attrs) ELSE g2.edges[e]]]

(***************************************************************************)
(* build_knowledge_graph                                                   *)
(***************************************************************************)
IsHandledTypeWide(t) ==
    t \in {"attack-pattern", "malware", "tool", "relationship", "x-mitre-tactic"}

\* obj.get("type") in ["attack-pattern", "malware", "tool", "relationship"]
IsHandledType(t) == t \in {"attack-pattern", "malware", "tool", "relationship"}

HasEndpointsSourceOnly(source_ref, target_ref) == Truthy(source_ref)

\* if source_ref and target_ref
HasEndpoints(source_ref, target_ref) == Truthy(source_ref) /\ Truthy(target_ref)

\* the body of the inner loop, for one object
ProcessObject(g, obj) ==
    IF IsHandledType(Get(obj, "type", None))
    THEN LET node_id == Get(obj, "id", Get(obj, "external_id", "unknown"))
             node_name == Get(obj, "name", Get(obj, "id", "Unnamed"))
             g1 == add_node(g, node_id, [label |-> node_name, type |-> obj["type"]])
             source_ref == Get(obj, "source_ref", None)
             target_ref == Get(obj, "target_ref", None)
             rel_type == Get(obj, "relationship_type", "related-to")
         IN IF Get(obj, "type", None) = "relationship"
            THEN IF HasEndpoints(source_ref, target_ref)
                 THEN add_edge(g1, source_ref, target_ref, [relationship |-> rel_type])
                 ELSE g1
            ELSE g1
    ELSE g

RECURSIVE ProcessObjects(_, _)
ProcessObjects(g, objs) ==
    IF objs = <<>> THEN g ELSE ProcessObjects(ProcessObject(g, Head(objs)), Tail(objs))

RECURSIVE ProcessEntries(_, _)
ProcessEntries(g, entries) ==
    IF entries = <<>> THEN g
    ELSE ProcessEntries(
             IF "objects" \in DOMAIN Head(entries)
             THEN ProcessObjects(g, Head(entries)["objects"]) ELSE g,
             Tail(entries))

\* the function as a whole
build_knowledge_graph(d) == ProcessEntries(DiGraph, d)

(***************************************************************************)
(* The objects the documents are made of.                                  *)
(***************************************************************************)
ObjectPool ==
    { [type |-> "attack-pattern", id |-> "T1", name |-> "Phishing"],
      [type |-> "malware", id |-> "T1", name |-> "Emotet"],
      [type |-> "tool", external_id |-> "E1"],
      [type |-> "attack-pattern", name |-> ""],
      [type |-> "relationship", id |-> "R1", source_ref |-> "T1", target_ref |-> "T2",
       relationship_type |-> "uses"],
      [type |-> "relationship", source_ref |-> "T1", target_ref |-> "T2"],
      [type |-> "relationship", id |-> "R2", source_ref |-> "T1"],
      [type |-> "relationship", id |-> "R3", source_ref |-> "", target_ref |-> "T2",
       relationship_type |-> "uses"],
      [type |-> "x-mitre-tactic", id |-> "T1", name |-> "Tactic"],
      [id |-> "T2", name |-> "NoType"] }

SeqsUpTo(S, n) == UNION {[1..k -> S] : k \in 0..n}

\* The shape of an argument: per document the number of its objects, or -1
\* for a document without an "objects" field.  Shapes(k, n): at most k
\* documents holding exactly n objects together.
RECURSIVE Shapes(_, _)
Shapes(k, n) ==
    (IF n = 0 THEN {<<>>} ELSE {}) \cup
    (IF k = 0 THEN {}
     ELSE UNION { {<<c>> \o rest : rest \in Shapes(k - 1, IF c < 0 THEN n ELSE n - c)} :
                  c \in -1..n })

\* the documents of that shape over the objects objs, in order
RECURSIVE MakeData(_, _)
MakeData(shape, objs) ==
    IF shape = <<>> THEN <<>>
    ELSE IF Head(shape) < 0
         THEN <<[type |-> "bundle"]>> \o MakeData(Tail(shape), objs)
         ELSE <<[type |-> "bundle", objects |-> SubSeq(objs, 1, Head(shape))]>> \o
              MakeData(Tail(shape), SubSeq(objs, Head(shape) + 1, Len(objs)))

(***************************************************************************)
(* build_knowledge_graph as a state machine: one step per iteration.       *)
(***************************************************************************)
InitBuild ==
    /\ \E objs \in SeqsUpTo(ObjectPool, MaxObjects) :
           \E shape \in Shapes(MaxDocs, Len(objs)) : data = MakeData(shape, objs)
    /\ entry_i = 1
    /\ obj_i = 1
    /\ G = DiGraph
    /\ build_pc = "loop"

\* the inner loop's body runs for the object at (entry_i, obj_i)
AtObject ==
    /\ build_pc = "loop"
    /\ entry_i <= Len(data)
    /\ "objects" \in DOMAIN data[entry_i]
    /\ obj_i <= Len(data[entry_i]["objects"])

CurrentObject == data[entry_i]["objects"][obj_i]

BuildObject ==
    /\ AtObject
    /\ G' = ProcessObject(G, CurrentObject)
    /\ obj_i' = obj_i + 1
    /\ UNCHANGED <<data, entry_i, build_pc, loadVars, indexVars, filterVars>>

\* the entry has no "objects", or its objects are exhausted: next entry
BuildNextEntry ==
    /\ build_pc = "loop"
    /\ entry_i <= Len(data)
    /\ ~AtObject
    /\ entry_i' = entry_i + 1
    /\ obj_i' = 1
    /\ UNCHANGED <<data, G, build_pc, loadVars, indexVars, filterVars>>

\* return G
BuildReturn ==
    /\ build_pc = "loop"
    /\ entry_i > Len(data)
    /\ build_pc' = "returned"
    /\ UNCHANGED <<data, entry_i, obj_i, G, loadVars, indexVars, filterVars>>

BuildIdle ==
    /\ data = <<>>
    /\ entry_i = 1
    /\ obj_i = 1
    /\ build_pc = "idle"

(***************************************************************************)
(* load_json_files.  The file system is one directory, Dir, whose entries  *)
(* are files (text, or bytes that are not UTF-8) and subdirectories.       *)
(***************************************************************************)
Dir == "corpus"

EntryPool ==
    { [name |-> "a.json", kind |-> "file", utf8 |-> TRUE, text |-> "{\"objects\": []}"],
      [name |-> "b.json", kind |-> "file", utf8 |-> TRUE,
       text |-> "{\"objects\": [{\"type\": \"tool\", \"id\": \"T9\"}]}"],
      [name |-> "bad.json", kind |-> "file", utf8 |-> TRUE, text |-> "{\"objects\": ["],
      [name |-> "latin1.json", kind |-> "file", utf8 |-> FALSE, text |-> ""],
      [name |-> "sub.json", kind |-> "dir", utf8 |-> TRUE, text |-> ""],
      [name |-> "notes.txt", kind |-> "file", utf8 |-> TRUE, text |-> "{\"objects\": []}"] }

\* the path arguments: the directory, a name in it (present or not), a path
\* that does not exist
PathPool == {Dir, "nowhere"} \cup {Dir \o "/" \o e.name : e \in EntryPool}

\* s.endswith(suffix)
EndsWith(s, suffix) ==
    Len(s) >= Len(suffix) /\ SubSeq(s, Len(s) - Len(suffix) + 1, Len(s)) = suffix

\* os.path.join(a, b)
PathJoin(a, b) == a \o "/" \o b

\* os.path.isdir(p)
IsDir(p) ==
    \/ p = Dir
    \/ \E i \in 1..Len(listing) : PathJoin(Dir, listing[i].name) = p /\ listing[i].kind = "dir"

\* os.listdir(p) of the directory Dir (a subdirectory is empty)
ListDir(p) == IF p = Dir THEN [i \in 1..Len(listing) |-> listing[i].name] ELSE <<>>

\* the candidates of a directory: its entries that end in ".json", joined
RECURSIVE JsonEntries(_, _)
JsonEntries(p, names) ==
    IF names = <<>> THEN <<>>
    ELSE (IF EndsWith(Head(names), ".json") THEN <<PathJoin(p, Head(names))>> ELSE <<>>) \o
         JsonEntries(p, Tail(names))

\* the entries found at a path (none: the path does not exist)
EntriesAt(p) == {listing[i] : i \in {j \in 1..Len(listing) : PathJoin(Dir, listing[j].name) = p}}

\* open(file, "r", encoding="utf-8"): "ok", or the exception raised
OpenResult(p) ==
    IF p = Dir THEN "IsADirectoryError"
    ELSE IF EntriesAt(p) = {} THEN "FileNotFoundError"
    ELSE IF \E e \in EntriesAt(p) : e.kind = "dir" THEN "IsADirectoryError"
    ELSE "ok"

FileAt(p) == CHOOSE e \in EntriesAt(p) : TRUE

\* json.loads of the texts the files hold: the value, or JSONDecodeError
JsonLoads(text) ==
    CASE text = "{\"objects\": []}" -> [ok |-> TRUE, value |-> [objects |-> <<>>]]
      [] text = "{\"objects\": [{\"type\": \"tool\", \"id\": \"T9\"}]}" ->
            [ok |-> TRUE, value |-> [objects |-> <<[type |-> "tool", id |-> "T9"]>>]]
      [] OTHER -> [ok |-> FALSE, value |-> <<>>]

\* json.load(f) of an open file: reading decodes the bytes as UTF-8 first
JsonLoadResult(e) ==
    IF ~e.utf8 THEN "UnicodeDecodeError"
    ELSE IF JsonLoads(e.text).ok THEN "ok" ELSE "JSONDecodeError"

InjectiveSeqs(S, n) ==
    {s \in SeqsUpTo(S, n) : \A i, j \in 1..Len(s) : s[i].name = s[j].name => i = j}

InitLoad ==
    /\ listing \in InjectiveSeqs(EntryPool, MaxEntries)
    /\ path \in PathPool
    /\ json_files = <<>>
    /\ file_i = 1
    /\ load_data = <<>>
    /\ printed = <<>>
    /\ load_pc = "resolve"

\* lines 14-20: the candidates
LoadResolve ==
    /\ load_pc = "resolve"
    /\ json_files' = IF IsDir(path) THEN JsonEntries(path, ListDir(path))
                     ELSE IF EndsWith(path, ".json") THEN <<path>> ELSE <<>>
    /\ load_pc' = "loop"
    /\ UNCHANGED <<path, listing, file_i, load_data, printed>>
    /\ UNCHANGED <<G, buildVars, indexVars, filterVars>>

AtFile == load_pc = "loop" /\ file_i <= Len(json_files)

\* open() raises, or json.load raises something that is no JSONDecodeError:
\* the exception leaves load_json_files
LoadRaise ==
    /\ AtFile
    /\ \/ OpenResult(json_files[file_i]) # "ok"
       \/ /\ OpenResult(json_files[file_i]) = "ok"
          /\ JsonLoadResult(FileAt(json_files[file_i])) = "UnicodeDecodeError"
    /\ load_pc' = "raised"
    /\ UNCHANGED <<path, listing, json_files, file_i, load_data, printed>>
    /\ UNCHANGED <<G, buildVars, indexVars, filterVars>>

\* content = json.load(f); data.append(content)
LoadAppend ==
    /\ AtFile
    /\ OpenResult(json_files[file_i]) = "ok"
    /\ JsonLoadResult(FileAt(json_files[file_i])) = "ok"
    /\ load_data' = Append(load_data, JsonLoads(FileAt(json_files[file_i]).text).value)
    /\ file_i' = file_i + 1
    /\ UNCHANGED <<path, listing, json_files, printed, load_pc>>
    /\ UNCHANGED <<G, buildVars, indexVars, filterVars>>

LoadSkipAndStop ==
    /\ AtFile
    /\ OpenResult(json_files[file_i]) = "ok"
    /\ JsonLoadResult(FileAt(json_files[file_i])) = "JSONDecodeError"
    /\ printed' = Append(printed, "Skipping invalid JSON file: " \o json_files[file_i])
    /\ file_i' = Len(json_files) + 1
    /\ UNCHANGED <<path, listing, json_files, load_data, load_pc>>
    /\ UNCHANGED <<G, buildVars, indexVars, filterVars>>

\* except json.JSONDecodeError: print(...), and the loop goes on
LoadSkip ==
    /\ AtFile
    /\ OpenResult(json_files[file_i]) = "ok"
    /\ JsonLoadResult(FileAt(json_files[file_i])) = "JSONDecodeError"
    /\ printed' = Append(printed, "Skipping invalid JSON file: " \o json_files[file_i])
    /\ file_i' = file_i + 1
    /\ UNCHANGED <<path, listing, json_files, load_data, load_pc>>
    /\ UNCHANGED <<G, buildVars, indexVars, filterVars>>

\* return data
LoadReturn ==
    /\ load_pc = "loop"
    /\ file_i > Len(json_files)
    /\ load_pc' = "returned"
    /\ UNCHANGED <<path, listing, json_files, file_i, load_data, printed>>
    /\ UNCHANGED <<G, buildVars, indexVars, filterVars>>

LoadIdle ==
    /\ path = Dir
    /\ listing = <<>>
    /\ json_files = <<>>
    /\ file_i = 1
    /\ load_data = <<>>
    /\ printed = <<>>
    /\ load_pc = "idle"

(***************************************************************************)
(* generate_embeddings_and_index.  The encoder (SentenceTransformer) and    *)
(* the index (faiss.IndexFlatL2) are external: the encoder is a fixed       *)
(* function from text to vector, the index keeps the vectors it is given in *)
(* order and answers a query with the position of the nearest one.  Vectors *)
(* have two integer components; a vector of length UnitLength stands for a  *)
(* unit vector.                                                             *)
(***************************************************************************)
UnitLength == 5 * 13

\* model.encode of one text
Encode(text) ==
    CASE text = "Phishing"     -> <<6, 8>>
      [] text = "Exploitation" -> <<5, 12>>
      [] text = "Unnamed"      -> <<56, 33>>
      [] text = "Unknown"      -> <<0, 3>>
      [] text = ""             -> <<126, 32>>
      [] OTHER                 -> <<7, 0>>

\* model.encode(texts, convert_to_numpy=True): one vector per text, in order
EncodeBatch(ts) == [i \in 1..Len(ts) |-> Encode(ts[i])]

SumSq(v) == v[1] * v[1] + v[2] * v[2]

\* the Euclidean norm of the encoder's vectors, which have integer norms
Norm(v) == CHOOSE n \in 0..(v[1] + v[2]) : n * n = SumSq(v)

\* faiss.normalize_L2 on one row: divided by its norm (a zero row is kept)
NormalizeRow(v) ==
    IF SumSq(v) = 0 THEN v
    ELSE <<(v[1] * UnitLength) \div Norm(v), (v[2] * UnitLength) \div Norm(v)>>

\* faiss.normalize_L2(embeddings)
normalize_L2(embeddings) == [i \in 1..Len(embeddings) |-> NormalizeRow(embeddings[i])]

\* squared Euclidean distance, the metric of IndexFlatL2
L2Sqr(a, b) == (a[1] - b[1]) * (a[1] - b[1]) + (a[2] - b[2]) * (a[2] - b[2])

\* index.search(query, 1): the position, counted from 0, of the nearest
\* vector, the first one among equally near ones; -1 on an empty index
Search1(idx, query) ==
    IF idx = <<>> THEN -1
    ELSE (CHOOSE i \in 1..Len(idx) :
             /\ \A j \in 1..Len(idx) : L2Sqr(idx[i], query) <= L2Sqr(idx[j], query)
             /\ \A j \in 1..(i - 1) : L2Sqr(idx[j], query) > L2Sqr(idx[i], query)) - 1

\* list(G.nodes(data=True))
NodeList(g) == [i \in 1..Len(g.nodes) |-> <<g.nodes[i], g.attr[g.nodes[i]]>>]

\* [node[1].get('label', 'Unknown') for node in node_list]
LabelTexts(nl) == [i \in 1..Len(nl) |-> Get(nl[i][2], "label", "Unknown")]

\* G.nodes[node_id]['embedding'] = embeddings[i], for each node of the snapshot
RECURSIVE StoreEmbeddings(_, _, _, _)
StoreEmbeddings(g, nl, embeddings, i) ==
    IF i > Len(nl) THEN g
    ELSE StoreEmbeddings(
             [g EXCEPT !.attr[nl[i][1]] = Update(@, [embedding |-> embeddings[i]])],
             nl, embeddings, i + 1)

IndexObjectPool ==
    { [type |-> "attack-pattern", id |-> "T1", name |-> "Phishing"],
      [type |-> "attack-pattern", id |-> "T2", name |-> "Exploitation"],
      [type |-> "attack-pattern", id |-> "T3", name |-> ""],
      [type |-> "tool", external_id |-> "E1"],
      [type |-> "relationship", id |-> "R1", source_ref |-> "T1", target_ref |-> "T2",
       relationship_type |-> "uses"] }

\* the graphs build_knowledge_graph returns for small documents
GraphPool ==
    {build_knowledge_graph(<<[objects |-> objs]>>) :
        objs \in SeqsUpTo(IndexObjectPool, MaxIndexObjects)}

\* index = faiss.IndexFlatL2(384) at import: empty
InitIndex ==
    /\ index = <<>>
    /\ G = DiGraph
    /\ node_list = <<>>
    /\ texts = <<>>
    /\ calls = 0

\* one call of generate_embeddings_and_index, on a graph just built or on
\* the graph of the call before
GenerateEmbeddingsAndIndex ==
    /\ calls < MaxCalls
    /\ \E g \in GraphPool \cup {G} :
          LET nl == NodeList(g)
              ts == LabelTexts(nl)
              embeddings == normalize_L2(EncodeBatch(ts))
          IN /\ node_list' = nl
             /\ texts' = ts
             /\ index' = index \o embeddings
             /\ G' = StoreEmbeddings(g, nl, embeddings, 1)
    /\ calls' = calls + 1
    /\ UNCHANGED <<buildVars, loadVars, filterVars>>

IndexIdle ==
    /\ index = <<>>
    /\ node_list = <<>>
    /\ texts = <<>>
    /\ calls = 0

(***************************************************************************)
(* mitre_processor2.py                                                     *)
(***************************************************************************)
\* PLATFORM_MAPPING
PLATFORM_MAPPING ==
    [containers |-> <<"container", "containers", "docker", "podman", "kubernetes">>]

\* str.lower on the platform names in use
Lower(s) ==
    CASE s = "Linux"      -> "linux"
      [] s = "Windows"    -> "windows"
      [] s = "Docker"     -> "docker"
      [] s = "Containers" -> "containers"
      [] s = "Kubernetes" -> "kubernetes"
      [] OTHER            -> s

normalize_platform_as_is(p) == p

\* platform.lower() if platform else ""
normalize_platform(p) == IF p # "" THEN Lower(p) ELSE ""

\* PLATFORM_MAPPING.get(target_platform, [target_platform])
get_expanded_platforms(target_platform) ==
    Get(PLATFORM_MAPPING, target_platform, <<target_platform>>)

platform_check(mitre_object, target_platform) ==
    LET expanded_platforms == get_expanded_platforms(target_platform)
        object_platforms == Get(mitre_object, "x_mitre_platforms", <<>>)
    IN IF object_platforms = <<>> THEN FALSE
       ELSE \E e \in 1..Len(expanded_platforms) : \E o \in 1..Len(object_platforms) :
               normalize_platform(object_platforms[o]) =
                   normalize_platform(expanded_platforms[e])

\* the list comprehension of lines 47-51
RECURSIVE FilterObjects(_, _)
FilterObjects(objs, target_platform) ==
    IF objs = <<>> THEN <<>>
    ELSE (IF Get(Head(objs), "type", None) = "attack-pattern"
             /\ platform_check(Head(objs), target_platform)
          THEN <<Head(objs)>> ELSE <<>>) \o FilterObjects(Tail(objs), target_platform)

\* the value None where a dict may stand
NoneDict == [none |-> TRUE]

\* open(json_file_path, 'r') and json.load(f), lines 17-25: the exception
\* raised, "" when the file is read and parsed.  FileNotFoundError and
\* JSONDecodeError are the two that process_mitre catches.
ReadJsonResult(f) ==
    CASE f.kind = "missing"   -> "FileNotFoundError"
      [] f.kind = "directory" -> "IsADirectoryError"
      [] f.kind = "not_utf8"  -> "UnicodeDecodeError"
      [] f.kind = "invalid"   -> "JSONDecodeError"
      [] OTHER                -> ""

\* the outcome of a call: the value returned, or the exception raised
Return(v) == [exc |-> "", value |-> v]

Raise(e) == [exc |-> e, value |-> NoneDict]

\* process_mitre(json_file_path, platform), given what is at the path
process_mitre(f, target_platform) ==
    IF ReadJsonResult(f) \in {"FileNotFoundError", "JSONDecodeError"} THEN Return(NoneDict)
    ELSE IF ReadJsonResult(f) # "" THEN Raise(ReadJsonResult(f))
    ELSE IF f.kind = "json_array" THEN Raise("AttributeError")
    ELSE LET mitre_data == f.json
             filtered_objects == FilterObjects(Get(mitre_data, "objects", <<>>),
                                               target_platform)
         IN IF filtered_objects = <<>> THEN Return(NoneDict)
            ELSE Return([objects |-> filtered_objects,
                         type |-> Get(mitre_data, "type", "Unknown"),
                         id |-> Get(mitre_data, "id", "Unknown"),
                         spec_version |-> Get(mitre_data, "spec_version", "Unknown")])

FilterObjectPool ==
    { [type |-> "attack-pattern", name |-> "A", x_mitre_platforms |-> <<"Linux">>],
      [type |-> "attack-pattern", name |-> "B", x_mitre_platforms |-> <<"Windows", "Docker">>],
      [type |-> "attack-pattern", name |-> "C", x_mitre_platforms |-> <<"Containers">>],
      [type |-> "attack-pattern", name |-> "D", x_mitre_platforms |-> <<>>],
      [type |-> "attack-pattern", name |-> "E"],
      [type |-> "malware", name |-> "M", x_mitre_platforms |-> <<"Linux">>],
      [name |-> "N", x_mitre_platforms |-> <<"Linux">>] }

PlatformPool == {"linux", "Linux", "containers", "Containers", "docker", "macos"}

TopLevelPool ==
    { [type |-> "bundle", id |-> "bundle--1", spec_version |-> "2.0"],
      [id |-> "bundle--2"] }

\* what json_file_path leads to: nothing, a directory, a file whose bytes do
\* not decode as text, a text that is not JSON, a JSON array (valid JSON that
\* is not an object), a JSON object
JsonFilePool ==
    {[kind |-> "missing"], [kind |-> "directory"], [kind |-> "not_utf8"],
     [kind |-> "invalid"], [kind |-> "json_array"]} \cup
    {[kind |-> "json", json |-> top] : top \in TopLevelPool} \cup
    {[kind |-> "json", json |-> Update(top, [objects |-> objs])] :
        top \in TopLevelPool, objs \in SeqsUpTo(FilterObjectPool, MaxFilterObjects)}

InitFilter ==
    /\ json_file \in JsonFilePool
    /\ platform \in PlatformPool
    /\ processed_data = NoneDict
    /\ filter_exc = ""
    /\ outfile = NoneDict
    /\ filter_pc = "start"

\* processed_data = process_mitre(args.json_file_path, args.platform)
ProcessMitre ==
    /\ filter_pc = "start"
    /\ process_mitre(json_file, platform).exc = ""
    /\ processed_data' = process_mitre(json_file, platform).value
    /\ filter_pc' = "processed"
    /\ UNCHANGED <<json_file, platform, filter_exc, outfile, G, buildVars, loadVars,
                   indexVars>>

\* process_mitre raises: control passes to main's except Exception clause
ProcessMitreRaises ==
    /\ filter_pc = "start"
    /\ process_mitre(json_file, platform).exc # ""
    /\ filter_exc' = process_mitre(json_file, platform).exc
    /\ filter_pc' = "caught"
    /\ UNCHANGED <<json_file, platform, processed_data, outfile, G, buildVars, loadVars,
                   indexVars>>

\* if processed_data: json.dump(processed_data, outfile, indent=4)
MainWrite ==
    /\ filter_pc = "processed"
    /\ processed_data # NoneDict
    /\ outfile' = processed_data
    /\ filter_pc' = "done"
    /\ UNCHANGED <<json_file, platform, processed_data, filter_exc, G, buildVars, loadVars,
                   indexVars>>

\* else: print("No relevant techniques found.")
MainNoOutput ==
    /\ filter_pc = "processed"
    /\ processed_data = NoneDict
    /\ filter_pc' = "done"
    /\ UNCHANGED <<json_file, platform, processed_data, filter_exc, outfile, G, buildVars,
                   loadVars, indexVars>>

\* except Exception as e: logged and printed, nothing written
MainError ==
    /\ filter_pc = "caught"
    /\ filter_pc' = "done"
    /\ UNCHANGED <<json_file, platform, processed_data, filter_exc, outfile, G, buildVars,
                   loadVars, indexVars>>

FilterIdle ==
    /\ json_file = [kind |-> "missing"]
    /\ platform = ""
    /\ processed_data = NoneDict
    /\ filter_exc = ""
    /\ outfile = NoneDict
    /\ filter_pc = "idle"

(***************************************************************************)
(* The specifications.                                                     *)
(***************************************************************************)
NextBuild == BuildObject \/ BuildNextEntry \/ BuildReturn

InitGraph == InitBuild /\ G = DiGraph /\ LoadIdle /\ IndexIdle /\ FilterIdle

SpecGraph == InitGraph /\ [][NextBuild]_vars

NextLoad == LoadResolve \/ LoadRaise \/ LoadAppend \/ LoadSkip \/ LoadReturn

InitLoader == InitLoad /\ G = DiGraph /\ BuildIdle /\ IndexIdle /\ FilterIdle

SpecLoad == InitLoader /\ [][NextLoad]_vars

NextIndex == GenerateEmbeddingsAndIndex

InitIndexer == InitIndex /\ BuildIdle /\ LoadIdle /\ FilterIdle

SpecIndex == InitIndexer /\ [][NextIndex]_vars

NextFilter == ProcessMitre \/ ProcessMitreRaises \/ MainWrite \/ MainNoOutput \/ MainError

InitProcessor == InitFilter /\ G = DiGraph /\ BuildIdle /\ LoadIdle /\ IndexIdle

SpecFilter == InitProcessor /\ [][NextFilter]_vars

(***************************************************************************)
(* What the claims about build_knowledge_graph speak of, stated over the   *)
(* argument.                                                               *)
(***************************************************************************)
\* all objects of the argument, in document order then object order
RECURSIVE AllObjects(_)
AllObjects(d) ==
    IF d = <<>> THEN <<>>
    ELSE (IF "objects" \in DOMAIN Head(d) THEN Head(d)["objects"] ELSE <<>>) \o
         AllObjects(Tail(d))

TypeIn(o, types) == "type" \in DOMAIN o /\ o["type"] \in types

IsEntityObject(o) == TypeIn(o, {"attack-pattern", "malware", "tool"})

IsRelationshipObject(o) == TypeIn(o, {"relationship"})

\* id, else external_id, else "unknown"
IdentityKey(o) ==
    IF "id" \in DOMAIN o THEN o["id"]
    ELSE IF "external_id" \in DOMAIN o THEN o["external_id"] ELSE "unknown"

\* name, else id, else "Unnamed"
DisplayLabel(o) ==
    IF "name" \in DOMAIN o THEN o["name"]
    ELSE IF "id" \in DOMAIN o THEN o["id"] ELSE "Unnamed"

\* relationship_type, else "related-to"
RelationshipLabel(o) ==
    IF "relationship_type" \in DOMAIN o THEN o["relationship_type"] ELSE "related-to"

\* the positions of all, the greatest position in a non-empty set
Last(positions) == CHOOSE i \in positions : \A j \in positions : j <= i

EntityPositions(all, key) ==
    {i \in 1..Len(all) : IsEntityObject(all[i]) /\ IdentityKey(all[i]) = key}

CarriesBothRefs(o) ==
    IsRelationshipObject(o) /\ "source_ref" \in DOMAIN o /\ "target_ref" \in DOMAIN o

CarriesBothRefsNonEmpty(o) ==
    CarriesBothRefs(o) /\ o["source_ref"] # "" /\ o["target_ref"] # ""

EdgePositions(all, e) ==
    {i \in 1..Len(all) : CarriesBothRefsNonEmpty(all[i])
                         /\ <<all[i]["source_ref"], all[i]["target_ref"]>> = e}

Returned == build_pc = "returned"

\* C1: the node set of the returned graph is exactly the set of identity
\* keys of the attack-pattern, malware and tool objects of the argument; a
\* relationship object adds no node.
C1_NodesAreEntityKeys ==
    Returned =>
        Range(G.nodes) =
            {IdentityKey(AllObjects(data)[i]) :
                i \in {j \in 1..Len(AllObjects(data)) : IsEntityObject(AllObjects(data)[j])}}

\* C2 as stated: the edge set of the returned graph is exactly the set of
\* pairs (source_ref, target_ref) of the relationship objects that carry
\* both fields.
C2_EdgesOfObjectsCarryingBothRefs ==
    Returned =>
        DOMAIN G.edges =
            {<<AllObjects(data)[i]["source_ref"], AllObjects(data)[i]["target_ref"]>> :
                i \in {j \in 1..Len(AllObjects(data)) : CarriesBothRefs(AllObjects(data)[j])}}

\* C2 amended: the edge set of the returned graph is exactly the set of
\* pairs (source_ref, target_ref) of the relationship objects that carry a
\* non-empty source_ref and a non-empty target_ref, and each edge is labelled
\* with the relationship_type ("related-to" when absent) of the last object
\* that produced it.
C2_EdgesOfObjectsWithNonEmptyRefs ==
    Returned =>
        LET all == AllObjects(data)
        IN /\ DOMAIN G.edges =
                {<<all[i]["source_ref"], all[i]["target_ref"]>> :
                    i \in {j \in 1..Len(all) : CarriesBothRefsNonEmpty(all[j])}}
           /\ \A e \in DOMAIN G.edges :
                G.edges[e] = [relationship |->
                                 RelationshipLabel(all[Last(EdgePositions(all, e))])]

\* a returned graph with two differently labelled edge requests for one pair
\* and a relationship object whose source_ref is empty or target_ref missing
C2_Witness ==
    /\ Returned
    /\ DOMAIN G.edges # {}
    /\ \E e \in DOMAIN G.edges : Cardinality(EdgePositions(AllObjects(data), e)) >= 2
    /\ \E i \in 1..Len(AllObjects(data)) :
          /\ IsRelationshipObject(AllObjects(data)[i])
          /\ ~CarriesBothRefsNonEmpty(AllObjects(data)[i])

\* C7: processing an object whose type is none of attack-pattern, malware,
\* tool, relationship (or that has no type) leaves the graph unchanged.
C7_OtherTypesLeaveGraphUnchanged ==
    [][(AtObject /\ ~IsEntityObject(CurrentObject) /\ ~IsRelationshipObject(CurrentObject))
          => G' = G]_vars

\* an object of another type, and one without a type, were processed while
\* the graph held nodes and an edge
C7_Witness ==
    /\ Returned
    /\ G.nodes # <<>>
    /\ DOMAIN G.edges # {}
    /\ \E i \in 1..Len(AllObjects(data)) : "type" \notin DOMAIN AllObjects(data)[i]
    /\ \E i \in 1..Len(AllObjects(data)) : TypeIn(AllObjects(data)[i], {"x-mitre-tactic"})

\* C8: when several attack-pattern/malware/tool objects share an identity
\* key, the returned graph has one node for that key, whose attributes are
\* the label and type computed from the last of them.
C8_LastEntityObjectWins ==
    Returned =>
        LET all == AllObjects(data)
        IN \A i \in 1..Len(all) :
             (IsEntityObject(all[i])
              /\ Cardinality(EntityPositions(all, IdentityKey(all[i]))) >= 2)
             => LET key == IdentityKey(all[i])
                    last == all[Last(EntityPositions(all, key))]
                IN /\ Cardinality({n \in 1..Len(G.nodes) : G.nodes[n] = key}) = 1
                   /\ G.attr[key] = [label |-> DisplayLabel(last), type |-> last["type"]]

(***************************************************************************)
(* Claims about load_json_files.                                           *)
(***************************************************************************)
\* C5: load_json_files never raises, whatever the path and the files.
C5_LoadNeverRaises == load_pc # "raised"

IsCandidate(e) == EndsWith(e.name, ".json")

IsValidJson(e) == e.kind = "file" /\ e.utf8 /\ JsonLoads(e.text).ok

IsMalformedJson(e) == e.kind = "file" /\ e.utf8 /\ ~JsonLoads(e.text).ok

\* the argument is the directory and each candidate is valid or malformed JSON
DirectoryOfJsonTexts ==
    /\ path = Dir
    /\ \A i \in 1..Len(listing) :
          IsCandidate(listing[i]) => IsValidJson(listing[i]) \/ IsMalformedJson(listing[i])

RECURSIVE ParsedValid(_)
ParsedValid(entries) ==
    IF entries = <<>> THEN <<>>
    ELSE (IF IsCandidate(Head(entries)) /\ IsValidJson(Head(entries))
          THEN <<JsonLoads(Head(entries).text).value>> ELSE <<>>) \o ParsedValid(Tail(entries))

RECURSIVE SkipDiagnostics(_)
SkipDiagnostics(entries) ==
    IF entries = <<>> THEN <<>>
    ELSE (IF IsCandidate(Head(entries)) /\ IsMalformedJson(Head(entries))
          THEN <<"Skipping invalid JSON file: " \o Dir \o "/" \o Head(entries).name>>
          ELSE <<>>) \o SkipDiagnostics(Tail(entries))

\* C6: for a directory whose candidates are each valid or malformed JSON,
\* load_json_files returns the parsed contents of the valid candidates, one
\* each, in discovery order, and prints one diagnostic per malformed one.
C6_ValidCandidatesLoadedInOrder ==
    DirectoryOfJsonTexts =>
        /\ load_pc # "raised"
        /\ load_pc = "returned" =>
              /\ load_data = ParsedValid(listing)
              /\ printed = SkipDiagnostics(listing)

\* a directory with a malformed candidate before a valid one was loaded
C6_Witness ==
    /\ DirectoryOfJsonTexts
    /\ load_pc = "returned"
    /\ \E i, j \in 1..Len(listing) :
          /\ i < j
          /\ IsCandidate(listing[i]) /\ IsMalformedJson(listing[i])
          /\ IsCandidate(listing[j]) /\ IsValidJson(listing[j])
    /\ load_data # <<>>

(***************************************************************************)
(* Claims about generate_embeddings_and_index.                             *)
(***************************************************************************)
\* the embedding the last call wrote on the node at snapshot position i
EmbeddingAt(i) == G.attr[node_list[i][1]]["embedding"]

\* no two nodes of the snapshot carry the same embedding (nodes with equal
\* embeddings cannot be told apart by a query)
DistinctEmbeddings ==
    \A i, j \in 1..Len(node_list) : EmbeddingAt(i) = EmbeddingAt(j) => i = j

\* C3: after every call, the first of the process or a later one, a
\* 1-nearest-neighbour query of the index with the embedding written on the
\* node at snapshot position i (counted from 0, as the index counts) returns
\* that position; stated for the snapshots whose embeddings are pairwise
\* different.
C3_SelfQueryReturnsOwnPosition ==
    (calls >= 1 /\ DistinctEmbeddings) =>
        \A i \in 1..Len(node_list) : Search1(index, EmbeddingAt(i)) = i - 1

\* C4: after any sequence of calls the index holds exactly one vector per
\* node of the last call's snapshot, and nothing else.
C4_IndexHoldsOneVectorPerNode ==
    calls >= 1 =>
        /\ Len(index) = Len(node_list)
        /\ \A i \in 1..Len(node_list) : index[i] = EmbeddingAt(i)

\* C10: the text encoded for the node at snapshot position i is its label
\* when present and non-empty and "Unknown" when absent or empty; one text
\* per node, in snapshot order.
C10_TextIsLabelOrUnknown ==
    calls >= 1 =>
        /\ Len(texts) = Len(node_list)
        /\ \A i \in 1..Len(node_list) :
              texts[i] = IF "label" \in DOMAIN node_list[i][2] /\ node_list[i][2]["label"] # ""
                         THEN node_list[i][2]["label"] ELSE "Unknown"

(***************************************************************************)
(* Claims about process_mitre and main.                                    *)
(***************************************************************************)
\* the aliases PLATFORM_MAPPING gives a platform
Aliases(p) == IF p \in DOMAIN PLATFORM_MAPPING THEN Range(PLATFORM_MAPPING[p]) ELSE {}

EqualIgnoringCase(a, b) == Lower(a) = Lower(b)

\* an attack-pattern one of whose platforms is the target or an alias of it
IsRelevant(o, target) ==
    /\ TypeIn(o, {"attack-pattern"})
    /\ "x_mitre_platforms" \in DOMAIN o
    /\ \E i \in 1..Len(o["x_mitre_platforms"]) : \E t \in {target} \cup Aliases(target) :
          EqualIgnoringCase(o["x_mitre_platforms"][i], t)

InputObjects ==
    IF json_file.kind = "json" /\ "objects" \in DOMAIN json_file.json
    THEN json_file.json["objects"] ELSE <<>>

\* the relevant objects of the input document, in input order
RelevantObjects ==
    LET Keep(o) == IsRelevant(o, platform) IN SelectSeq(InputObjects, Keep)

\* process_mitre returned None, returned a document, raised
ReturnedNone == filter_exc = "" /\ processed_data = NoneDict

ReturnedDocument == filter_exc = "" /\ processed_data # NoneDict

\* C9 as stated: a document returned by process_mitre carries the input's
\* top-level type, id and spec_version and exactly the relevant objects in
\* input order; None is returned, and main writes no file, exactly when the
\* file is missing, is invalid JSON, or no object is relevant.
C9_FilteredDocumentAsStated ==
    filter_pc = "done" =>
        /\ ReturnedNone <=>
              \/ json_file.kind \in {"missing", "invalid"}
              \/ json_file.kind = "json" /\ RelevantObjects = <<>>
        /\ outfile = NoneDict <=>
              \/ json_file.kind \in {"missing", "invalid"}
              \/ json_file.kind = "json" /\ RelevantObjects = <<>>
        /\ ReturnedDocument =>
              /\ processed_data["objects"] = RelevantObjects
              /\ \A f \in {"type", "id", "spec_version"} :
                    f \in DOMAIN json_file.json /\ processed_data[f] = json_file.json[f]

\* C9 amended: a document returned by process_mitre carries exactly the
\* relevant objects in input order and, for each of type, id and
\* spec_version, the input's top-level value, or "Unknown" where the input
\* has none; None is returned exactly when the file is missing, is invalid
\* JSON, or is a JSON object none of whose objects is relevant; process_mitre
\* raises exactly when the path is a directory, holds bytes that do not
\* decode, or holds JSON that is not an object; main writes the returned
\* document, and writes nothing when None is returned or an exception raised.
C9_FilteredDocument ==
    filter_pc = "done" =>
        /\ filter_exc # "" <=> json_file.kind \in {"directory", "not_utf8", "json_array"}
        /\ ReturnedNone <=>
              \/ json_file.kind \in {"missing", "invalid"}
              \/ json_file.kind = "json" /\ RelevantObjects = <<>>
        /\ outfile = NoneDict <=> ~ReturnedDocument
        /\ ReturnedDocument =>
              /\ processed_data["objects"] = RelevantObjects
              /\ \A f \in {"type", "id", "spec_version"} :
                    processed_data[f] = IF f \in DOMAIN json_file.json
                                        THEN json_file.json[f] ELSE "Unknown"
              /\ outfile = processed_data

\* main wrote a document for "containers" that keeps one of two input
\* objects, matched through the alias docker under another case, drops the
\* other, and fills in a top-level type the input lacks
C9_Witness ==
    /\ filter_pc = "done"
    /\ outfile # NoneDict
    /\ platform = "containers"
    /\ Len(InputObjects) = 2
    /\ Len(outfile["objects"]) = 1
    /\ "Docker" \in Range(outfile["objects"][1]["x_mitre_platforms"])
    /\ "type" \notin DOMAIN json_file.json
    /\ outfile["type"] = "Unknown"

====
